---- MODULE Spec2Model ----
(***************************************************************************)
(* Hadoop-snappy framing of snappy/snappy_hadoop.py: StreamCompressor,     *)
(* stream_compress and stream_decompress over byte sequences.  A byte is   *)
(* a number in 0..255, a byte string a sequence of bytes, a file-like      *)
(* object a byte string with a read position (source) or the list of the   *)
(* arguments of its write calls (sink).                                    *)
(***************************************************************************)
EXTENDS Integers, Sequences, FiniteSets, TLC

\* ---------------------------------------------------------------- bounds
\* Longest payload handed to one add_chunk call.
MaxLen == 1
\* Most add_chunk calls that build one stream (the test draws 0..3).
MaxChunks == 3
\* Longest source given to stream_compress.
MaxSrc == 3
\* Most frames of a stream that has one byte changed.
MaxTamperFrames == 1
\* Most frames of a stream that is cut short.
MaxCutFrames == 2
\* Most payloads in the source of one of two calls running side by side.
MaxRunFrames == 2
\* Most StreamCompressor objects alive, and most calls made on them.
MaxObjects == 2
MaxCalls == 3
\* Largest block size given to hadoop_snappy_max_input_size on its own.
MaxBlockSize == 120
\* Longest piece fed to the incremental decoder in one call.
MaxPiece == 3

\* Byte values payloads are drawn from: as tag bytes of the codec, 0 is a
\* one-byte literal and 1 a copy with a one-byte offset.
PayloadBytes == {0, 1}
\* Byte values a changed byte is drawn from: tags of short literals and of
\* copies, small lengths, and a large value that keeps a length field
\* below 2^31.
MutBytes == {0, 1, 2, 3, 4, 127}

SNAPPY_BUFFER_SIZE_DEFAULT == 262144

RECURSIVE SeqsUpTo(_, _)
SeqsUpTo(S, n) ==
    IF n = 0 THEN {<<>>}
    ELSE LET shorter == SeqsUpTo(S, n - 1)
         IN  shorter \cup {Append(s, b) : s \in {t \in shorter : Len(t) = n - 1}, b \in S}

Payloads == SeqsUpTo(PayloadBytes, MaxLen)
Sources == SeqsUpTo(PayloadBytes, MaxSrc)

Min(a, b) == IF a < b THEN a ELSE b

RECURSIVE Concat(_)
Concat(ss) == IF ss = <<>> THEN <<>> ELSE Head(ss) \o Concat(Tail(ss))

\* file.read(n) at position pos: the next n bytes, fewer at end of input,
\* everything that is left when n is negative.
FileRead(data, pos, n) ==
    IF n < 0 THEN SubSeq(data, pos + 1, Len(data))
    ELSE SubSeq(data, pos + 1, Min(pos + n, Len(data)))

\* ------------------------------------------------------------ error values
NoError == "none"
TypeErrorFloat == "TypeError: integer argument expected, got float"
StructError == "struct.error: unpack requires a buffer of 4 bytes"
ErrChunkLength == "UncompressError: Failed to read compressed chunk length"
ErrChunk == "UncompressError: Failed to read compressed chunk"
ErrMismatch == "UncompressError: Specified uncompressed chunk length != real uncompressed chunk length"
ErrCodec == "UncompressError: Error while decompressing: invalid input"
AttributeError == "AttributeError: 'StreamCompressor' object has no attribute '_header_chunk_written'"

\* ------------------------------------------------- the codec (snappy block)
\* Little-endian base-128 varint of n.
RECURSIVE Varint(_)
Varint(n) == IF n < 128 THEN <<n>> ELSE <<128 + (n % 128)>> \o Varint(n \div 128)

\* Little-endian value of a byte string.
RECURSIVE LittleEndian(_)
LittleEndian(bs) ==
    IF bs = <<>> THEN 0 ELSE Head(bs) + 256 * LittleEndian(Tail(bs))

\* The tag (and length bytes) of a literal element of n >= 1 bytes.
LiteralTag(n) ==
    IF n <= 60 THEN <<(n - 1) * 4>>
    ELSE IF n <= 256 THEN <<60 * 4, n - 1>>
    ELSE <<61 * 4, (n - 1) % 256, (n - 1) \div 256>>

\* snappy.compress on an input too short to hold a match (under 15 bytes
\* the compressor emits the input as one literal): the varint of the
\* length, then the literal.
Compress(data) ==
    IF data = <<>> THEN Varint(0)
    ELSE Varint(Len(data)) \o LiteralTag(Len(data)) \o data

\* The preamble of a block: [ok, val, next], next the index after it.
RECURSIVE ParseVarint(_, _, _, _)
ParseVarint(c, i, mult, acc) ==
    IF i > Len(c) \/ mult > 268435456 THEN [ok |-> FALSE, val |-> 0, next |-> i]
    ELSE IF c[i] < 128 THEN [ok |-> TRUE, val |-> acc + c[i] * mult, next |-> i + 1]
    ELSE ParseVarint(c, i + 1, mult * 128, acc + (c[i] - 128) * mult)

\* A copy element: n bytes, each the byte offset places back in the output.
RECURSIVE CopyBytes(_, _, _)
CopyBytes(out, offset, n) ==
    IF n = 0 THEN out
    ELSE CopyBytes(Append(out, out[Len(out) + 1 - offset]), offset, n - 1)

\* The elements of a block from index i on, appended to out; limit is the
\* length the preamble declares.  [ok, data].
RECURSIVE DecodeElements(_, _, _, _)
DecodeElements(c, i, out, limit) ==
    IF i > Len(c) THEN [ok |-> TRUE, data |-> out]
    ELSE
      LET tag == c[i]
          kind == tag % 4
          upper == tag \div 4
          fail == [ok |-> FALSE, data |-> <<>>]
      IN
      IF kind = 0 THEN
          LET extra == IF upper < 60 THEN 0 ELSE upper - 59
              n == IF upper < 60 THEN upper + 1
                   ELSE IF i + extra > Len(c) THEN 0
                   ELSE LittleEndian(SubSeq(c, i + 1, i + extra)) + 1
              first == i + 1 + extra
          IN  IF n = 0 \/ first + n - 1 > Len(c) \/ Len(out) + n > limit THEN fail
              ELSE DecodeElements(c, first + n, out \o SubSeq(c, first, first + n - 1), limit)
      ELSE
          LET extra == IF kind = 1 THEN 1 ELSE IF kind = 2 THEN 2 ELSE 4
              n == IF kind = 1 THEN 4 + (upper % 8) ELSE upper + 1
              offset == IF i + extra > Len(c) THEN 0
                        ELSE IF kind = 1 THEN (tag \div 32) * 256 + c[i + 1]
                        ELSE LittleEndian(SubSeq(c, i + 1, i + extra))
          IN  IF offset = 0 \/ offset > Len(out) \/ Len(out) + n > limit THEN fail
              ELSE DecodeElements(c, i + 1 + extra, CopyBytes(out, offset, n), limit)

\* snappy.uncompress: the bytes of a well-formed block whose elements give
\* exactly the length of its preamble; otherwise the decode failure.
Uncompress(c) ==
    LET pre == ParseVarint(c, 1, 1, 0)
        body == DecodeElements(c, pre.next, <<>>, pre.val)
    IN  IF ~pre.ok THEN [ok |-> FALSE, data |-> <<>>]
        ELSE IF body.ok /\ Len(body.data) = pre.val THEN body
        ELSE [ok |-> FALSE, data |-> <<>>]

\* ------------------------------------------------------ snappy_hadoop.py
\* An optional integer argument: None, or Some(n).
None == <<>>
Some(n) == <<n>>
\* Python truth of an optional integer: None and 0 are false.
Truthy(arg) == arg # None /\ arg[1] # 0

\* hadoop_snappy_max_input_size without the 32 bytes of line 73.
max_input_size_without_32(block_size, trueDivision) ==
    LET buffer_size == IF Truthy(block_size) THEN block_size[1]
                       ELSE SNAPPY_BUFFER_SIZE_DEFAULT
    IN  IF trueDivision
        THEN [float |-> TRUE, num |-> 6 * buffer_size - buffer_size, den |-> 6]
        ELSE [float |-> FALSE, num |-> buffer_size - (buffer_size \div 6), den |-> 1]

\* hadoop_snappy_max_input_size: the value as a fraction num/den.  The
\* operator / is floor division on the integers of Python 2 (den = 1) and
\* true division giving a float under Python 3, also when the quotient is
\* whole (float = TRUE, the exact value (5 * buffer_size - 192) / 6).
hadoop_snappy_max_input_size(block_size, trueDivision) ==
    LET buffer_size == IF Truthy(block_size) THEN block_size[1]
                       ELSE SNAPPY_BUFFER_SIZE_DEFAULT
    IN  IF trueDivision
        THEN [float |-> TRUE, num |-> 6 * buffer_size - (buffer_size + 6 * 32), den |-> 6]
        ELSE LET compression_overhead == (buffer_size \div 6) + 32
             IN  [float |-> FALSE, num |-> buffer_size - compression_overhead, den |-> 1]

\* prepare_num packing with '<I': the bytes in little-endian order.
prepare_num_little_endian(num) ==
    << num % 256, (num \div 256) % 256, (num \div 65536) % 256, (num \div 16777216) % 256 >>

\* struct.pack('>I', num) for 0 <= num < 2^32.
prepare_num(num) ==
    << (num \div 16777216) % 256, (num \div 65536) % 256, (num \div 256) % 256, num % 256 >>

\* struct.unpack('>I', data)[0] for 4 bytes.
UnpackBigEndian(data) ==
    ((data[1] * 256 + data[2]) * 256 + data[3]) * 256 + data[4]

\* read_int returning 0 for every short read (if len(data) < 4: return 0).
read_int_short_is_zero(data, pos) ==
    LET got == FileRead(data, pos, 4)
    IN  IF Len(got) < 4 THEN [val |-> 0, n |-> Len(got), err |-> NoError]
        ELSE [val |-> UnpackBigEndian(got), n |-> 4, err |-> NoError]

\* read_int on the source data at position pos: [val, n, err], n the
\* number of bytes the read consumed.  No bytes give 0; one to three bytes
\* make struct.unpack raise.
read_int(data, pos) ==
    LET got == FileRead(data, pos, 4)
    IN  IF got = <<>> THEN [val |-> 0, n |-> 0, err |-> NoError]
        ELSE IF Len(got) < 4 THEN [val |-> 0, n |-> Len(got), err |-> StructError]
        ELSE [val |-> UnpackBigEndian(got), n |-> 4, err |-> NoError]

\* add_chunk appending the compressed length before the uncompressed one.
FrameLengthsSwapped(data, compressed_chunk) ==
    prepare_num(Len(compressed_chunk)) \o prepare_num(Len(data)) \o compressed_chunk

\* The body of StreamCompressor.add_chunk once _compress(data) has returned
\* compressed_chunk: the three parts of out, joined.
Frame(data, compressed_chunk) ==
    LET uncompressed_length == Len(data)
        compressed_length == Len(compressed_chunk)
    IN  prepare_num(uncompressed_length) \o prepare_num(compressed_length) \o compressed_chunk

\* StreamCompressor.add_chunk: one frame for the whole of data.
add_chunk(data) == Frame(data, Compress(data))

\* ------------------------------------------------------------------ state
VARIABLES
    src,        \* stream_compress: the content of its source
    blocksize,  \* stream_compress: its blocksize argument
    readSize,   \* stream_compress: blocksize after line 158
    srcPos,     \* stream_compress: bytes of src read so far
    cpc,        \* stream_compress: "idle", "loop", "done" or "error"
    cerr,       \* stream_compress: the error it raised
    chunks,     \* the payloads framed so far, one per add_chunk call
    wire,       \* the encoded bytes: sink of compression, source of decompression
    tamper,     \* "none", or what was done to wire: "cut", "mut"
    mutPos,     \* the index of the changed byte of wire, 0 when none
    dpc,        \* stream_decompress: "idle", "ulen", "clen", "body", "decode", "done", "error"
    rpos,       \* stream_decompress: bytes of wire read so far
    uncompressed_length,
    compressed_length,
    compressed_chunk,
    dst,        \* stream_decompress: the arguments of its dst.write calls
    derr,       \* stream_decompress: the error it raised
    objects,    \* the StreamCompressor objects: the set of attributes of each
    log,        \* the calls made on them: [op, obj, arg]
    ret,        \* the bytes the last call returned (<<>> for None)
    retObj,     \* the object the last call returned, 0 for none
    exc,        \* the exception the last call raised
    szBlock,    \* sizing: the block size
    szTrueDivision, \* sizing: whether / is true division
    szMax,      \* sizing: what hadoop_snappy_max_input_size returned
    szFrame,    \* sizing: the frame add_chunk returned for a payload of that size
    szpc,       \* sizing: "start", "sized" or "framed"
    ipc,        \* incremental decoder: "idle", "feeding", "flushed" or "error"
    ipos,       \* incremental decoder: bytes of wire fed so far
    istate,     \* its cursor: "AwaitUncompressedLen", "AwaitCompressedLen", "AwaitCompressedBody"
    ibuf,       \* its accumulation buffer
    iulen,      \* the uncompressed length of the frame it is in
    iclen,      \* the compressed length of the frame it is in
    ireturned,  \* everything its decompress calls returned, concatenated
    ierr,       \* the error it raised
    \* two calls of stream_compress or stream_decompress running side by side
    runs        \* run -> the arguments, position and local names of the call

encVars == <<src, blocksize, readSize, srcPos, cpc, cerr, chunks>>
decVars == <<dpc, rpos, uncompressed_length, compressed_length, compressed_chunk, dst, derr>>
objVars == <<objects, log, ret, retObj, exc>>
sizeVars == <<szBlock, szTrueDivision, szMax, szFrame, szpc>>
incVars == <<ipc, ipos, istate, ibuf, iulen, iclen, ireturned, ierr>>
vars == <<encVars, wire, tamper, mutPos, decVars, objVars, sizeVars, incVars, runs>>

\* The block sizes stream_compress is called with: the default, 0, a
\* negative one, and small ones giving read sizes 0, 1, 2 and 3 on integers.
BlockSizes == {None, Some(0), Some(-6), Some(38), Some(39), Some(40), Some(41)}

Unset == [float |-> FALSE, num |-> 0, den |-> 1]

StreamInit ==
    /\ src = <<>> /\ blocksize = None /\ readSize = Unset /\ srcPos = 0
    /\ cpc = "idle" /\ cerr = NoError /\ chunks = <<>>
    /\ wire = <<>> /\ tamper = "none" /\ mutPos = 0
    /\ dpc = "idle" /\ rpos = 0
    /\ uncompressed_length = 0 /\ compressed_length = 0 /\ compressed_chunk = <<>>
    /\ dst = <<>> /\ derr = NoError

\* One StreamCompressor object, as StreamCompressor.__init__ leaves it:
\* without attributes.
ObjInit ==
    /\ objects = << {} >> /\ log = <<>>
    /\ ret = <<>> /\ retObj = 0 /\ exc = NoError

SizeIdle ==
    /\ szBlock = 0 /\ szTrueDivision = FALSE /\ szMax = Unset
    /\ szFrame = <<>> /\ szpc = "start"

IncInit ==
    /\ ipc = "idle" /\ ipos = 0 /\ istate = "AwaitUncompressedLen"
    /\ ibuf = <<>> /\ iulen = 0 /\ iclen = 0
    /\ ireturned = <<>> /\ ierr = NoError

\* A call that has not been made: no source, nothing read or written.
NoRun ==
    [kind |-> "none", src |-> <<>>, pos |-> 0, pc |-> "idle", err |-> NoError,
     sink |-> <<>>, readSize |-> Unset,
     uncompressed_length |-> 0, compressed_length |-> 0, compressed_chunk |-> <<>>]

Runs == {1, 2}

RunsIdle == runs = [r \in Runs |-> NoRun]

Init == StreamInit /\ ObjInit /\ SizeIdle /\ IncInit /\ RunsIdle

\* Everything stream_decompress wrote.
Sink == Concat(dst)

\* ------------------------------------------------------------- compression
\* compressor.add_chunk(data) (or its alias compress), the frame appended
\* to the stream as the test does (compressed += compressor.add_chunk(chunk)).
AddChunk(data) ==
    /\ cpc = "idle" /\ dpc = "idle" /\ tamper = "none" /\ ipc = "idle"
    /\ Len(chunks) < MaxChunks
    /\ wire' = wire \o add_chunk(data)
    /\ chunks' = Append(chunks, data)
    /\ UNCHANGED <<src, blocksize, readSize, srcPos, cpc, cerr, tamper, mutPos, decVars,
                   objVars, sizeVars, incVars, runs>>

\* stream_compress(src, dst, blocksize) up to its loop: lines 157-158.
StreamCompressCall(data, bs, trueDivision) ==
    /\ cpc = "idle" /\ dpc = "idle" /\ tamper = "none" /\ chunks = <<>>
    /\ src' = data
    /\ blocksize' = bs
    /\ readSize' = hadoop_snappy_max_input_size(bs, trueDivision)
    /\ cpc' = "loop"
    /\ UNCHANGED <<srcPos, cerr, chunks, wire, tamper, mutPos, decVars,
                   objVars, sizeVars, incVars, runs>>

\* The loop of stream_compress without lines 161-162: an empty read does
\* not leave the loop.
StreamCompressStepNoBreak ==
    /\ cpc = "loop"
    /\ IF readSize.float
       THEN /\ cpc' = "error" /\ cerr' = TypeErrorFloat
            /\ UNCHANGED <<srcPos, chunks, wire>>
       ELSE LET buf == FileRead(src, srcPos, readSize.num)
            IN  IF buf = <<>>
                THEN UNCHANGED <<cpc, srcPos, cerr, chunks, wire>>
                ELSE /\ srcPos' = srcPos + Len(buf)
                     /\ chunks' = Append(chunks, buf)
                     /\ wire' = wire \o add_chunk(buf)
                     /\ UNCHANGED <<cpc, cerr>>
    /\ UNCHANGED <<src, blocksize, readSize, tamper, mutPos, decVars,
                   objVars, sizeVars, incVars, runs>>

\* One iteration of the loop of stream_compress: lines 160-165.  A float
\* read size makes src.read raise TypeError.
StreamCompressStep ==
    /\ cpc = "loop"
    /\ IF readSize.float
       THEN /\ cpc' = "error" /\ cerr' = TypeErrorFloat
            /\ UNCHANGED <<srcPos, chunks, wire>>
       ELSE LET buf == FileRead(src, srcPos, readSize.num)
            IN  IF buf = <<>>
                THEN /\ cpc' = "done"
                     /\ UNCHANGED <<srcPos, cerr, chunks, wire>>
                ELSE /\ srcPos' = srcPos + Len(buf)
                     /\ chunks' = Append(chunks, buf)
                     /\ wire' = wire \o add_chunk(buf)
                     /\ UNCHANGED <<cpc, cerr>>
    /\ UNCHANGED <<src, blocksize, readSize, tamper, mutPos, decVars,
                   objVars, sizeVars, incVars, runs>>

\* ------------------------------------------------- the encoded bytes in between
\* The stream is cut short: a proper non-empty prefix of it reaches the reader.
Truncate(k) ==
    /\ cpc = "idle" /\ dpc = "idle" /\ tamper = "none"
    /\ Len(chunks) \in 1..MaxCutFrames
    /\ k \in 1..(Len(wire) - 1)
    /\ wire' = SubSeq(wire, 1, k)
    /\ tamper' = "cut"
    /\ UNCHANGED <<encVars, mutPos, decVars, objVars, sizeVars, incVars, runs>>

\* One byte of the stream is changed.
Mutate(i, b) ==
    /\ cpc = "idle" /\ dpc = "idle" /\ tamper = "none"
    /\ Len(chunks) \in 1..MaxTamperFrames
    /\ i \in 1..Len(wire)
    /\ b # wire[i]
    /\ wire' = [wire EXCEPT ![i] = b]
    /\ tamper' = "mut"
    /\ mutPos' = i
    /\ UNCHANGED <<encVars, decVars, objVars, sizeVars, incVars, runs>>

\* ----------------------------------------------------------- decompression
\* stream_decompress(src, dst) is called on the encoded bytes.
StreamDecompressCall ==
    /\ dpc = "idle" /\ cpc \in {"idle", "done", "error"}
    /\ dpc' = "ulen"
    /\ UNCHANGED <<encVars, wire, tamper, mutPos, rpos, uncompressed_length,
                   compressed_length, compressed_chunk, dst, derr,
                   objVars, sizeVars, incVars, runs>>

\* Lines 176-178 with a zero length taken as the header of an empty frame.
ReadUncompressedLengthZeroIsFrame ==
    /\ dpc = "ulen"
    /\ LET r == read_int(wire, rpos)
       IN  /\ rpos' = rpos + r.n
           /\ IF r.err # NoError
              THEN dpc' = "error" /\ derr' = r.err /\ UNCHANGED uncompressed_length
              ELSE /\ uncompressed_length' = r.val
                   /\ dpc' = "clen"
                   /\ UNCHANGED derr
    /\ UNCHANGED <<encVars, wire, tamper, mutPos, compressed_length, compressed_chunk, dst,
                   objVars, sizeVars, incVars, runs>>

\* Lines 176-178: the uncompressed length; 0 (also from end of input) ends the loop.
ReadUncompressedLength ==
    /\ dpc = "ulen"
    /\ LET r == read_int(wire, rpos)
       IN  /\ rpos' = rpos + r.n
           /\ IF r.err # NoError
              THEN dpc' = "error" /\ derr' = r.err /\ UNCHANGED uncompressed_length
              ELSE /\ uncompressed_length' = r.val
                   /\ dpc' = IF r.val = 0 THEN "done" ELSE "clen"
                   /\ UNCHANGED derr
    /\ UNCHANGED <<encVars, wire, tamper, mutPos, compressed_length, compressed_chunk, dst,
                   objVars, sizeVars, incVars, runs>>

\* Lines 179-181: the compressed length; 0 (also from end of input) is an error.
ReadCompressedLength ==
    /\ dpc = "clen"
    /\ LET r == read_int(wire, rpos)
       IN  /\ rpos' = rpos + r.n
           /\ IF r.err # NoError
              THEN dpc' = "error" /\ derr' = r.err /\ UNCHANGED compressed_length
              ELSE /\ compressed_length' = r.val
                   /\ IF r.val = 0
                      THEN dpc' = "error" /\ derr' = ErrChunkLength
                      ELSE dpc' = "body" /\ UNCHANGED derr
    /\ UNCHANGED <<encVars, wire, tamper, mutPos, uncompressed_length, compressed_chunk, dst,
                   objVars, sizeVars, incVars, runs>>

\* Lines 182-184 reading uncompressed_length bytes as the compressed chunk.
ReadCompressedChunkOfUncompressedLength ==
    /\ dpc = "body"
    /\ LET got == FileRead(wire, rpos, uncompressed_length)
       IN  /\ rpos' = rpos + Len(got)
           /\ compressed_chunk' = got
           /\ IF Len(got) # uncompressed_length
              THEN dpc' = "error" /\ derr' = ErrChunk
              ELSE dpc' = "decode" /\ UNCHANGED derr
    /\ UNCHANGED <<encVars, wire, tamper, mutPos, uncompressed_length, compressed_length, dst,
                   objVars, sizeVars, incVars, runs>>

\* Lines 182-184: the compressed chunk, which must have the length read.
ReadCompressedChunk ==
    /\ dpc = "body"
    /\ LET got == FileRead(wire, rpos, compressed_length)
       IN  /\ rpos' = rpos + Len(got)
           /\ compressed_chunk' = got
           /\ IF Len(got) # compressed_length
              THEN dpc' = "error" /\ derr' = ErrChunk
              ELSE dpc' = "decode" /\ UNCHANGED derr
    /\ UNCHANGED <<encVars, wire, tamper, mutPos, uncompressed_length, compressed_length, dst,
                   objVars, sizeVars, incVars, runs>>

\* Lines 185-194 without the comparison of lines 186-193.
DecodeAndWriteNoLengthCheck ==
    /\ dpc = "decode"
    /\ LET u == Uncompress(compressed_chunk)
       IN  IF ~u.ok
           THEN dpc' = "error" /\ derr' = ErrCodec /\ UNCHANGED dst
           ELSE dpc' = "ulen" /\ dst' = Append(dst, u.data) /\ UNCHANGED derr
    /\ UNCHANGED <<encVars, wire, tamper, mutPos, rpos, uncompressed_length,
                   compressed_length, compressed_chunk, objVars, sizeVars, incVars, runs>>

\* Lines 185-194 with the codec's failure caught and the chunk skipped.
DecodeAndWriteSkipBadChunk ==
    /\ dpc = "decode"
    /\ LET u == Uncompress(compressed_chunk)
       IN  IF ~u.ok
           THEN dpc' = "ulen" /\ UNCHANGED <<dst, derr>>
           ELSE IF Len(u.data) # uncompressed_length
           THEN dpc' = "error" /\ derr' = ErrMismatch /\ UNCHANGED dst
           ELSE dpc' = "ulen" /\ dst' = Append(dst, u.data) /\ UNCHANGED derr
    /\ UNCHANGED <<encVars, wire, tamper, mutPos, rpos, uncompressed_length,
                   compressed_length, compressed_chunk, objVars, sizeVars, incVars, runs>>

\* Lines 185-194 with dst.write moved before the comparison of lines 186-193.
DecodeAndWriteBeforeCheck ==
    /\ dpc = "decode"
    /\ LET u == Uncompress(compressed_chunk)
       IN  IF ~u.ok
           THEN dpc' = "error" /\ derr' = ErrCodec /\ UNCHANGED dst
           ELSE /\ dst' = Append(dst, u.data)
                /\ IF Len(u.data) # uncompressed_length
                   THEN dpc' = "error" /\ derr' = ErrMismatch
                   ELSE dpc' = "ulen" /\ UNCHANGED derr
    /\ UNCHANGED <<encVars, wire, tamper, mutPos, rpos, uncompressed_length,
                   compressed_length, compressed_chunk, objVars, sizeVars, incVars, runs>>

\* Lines 185-194: uncompress, compare the length with the one declared, write.
DecodeAndWrite ==
    /\ dpc = "decode"
    /\ LET u == Uncompress(compressed_chunk)
       IN  IF ~u.ok
           THEN dpc' = "error" /\ derr' = ErrCodec /\ UNCHANGED dst
           ELSE IF Len(u.data) # uncompressed_length
           THEN dpc' = "error" /\ derr' = ErrMismatch /\ UNCHANGED dst
           ELSE dpc' = "ulen" /\ dst' = Append(dst, u.data) /\ UNCHANGED derr
    /\ UNCHANGED <<encVars, wire, tamper, mutPos, rpos, uncompressed_length,
                   compressed_length, compressed_chunk, objVars, sizeVars, incVars, runs>>

Next ==
    \/ \E data \in Payloads : AddChunk(data)
    \/ \E data \in Sources, bs \in BlockSizes, trueDivision \in BOOLEAN :
           StreamCompressCall(data, bs, trueDivision)
    \/ StreamCompressStep
    \/ \E k \in 1..(Len(wire) - 1) : Truncate(k)
    \/ \E i \in 1..Len(wire), b \in MutBytes : Mutate(i, b)
    \/ StreamDecompressCall
    \/ ReadUncompressedLength
    \/ ReadCompressedLength
    \/ ReadCompressedChunk
    \/ DecodeAndWrite

Spec == Init /\ [][Next]_vars

\* ------------------------------------------------ properties of the streams
Finished == dpc \in {"done", "error"}

\* C1: round trip.  stream_compress called with its default block size on a
\* source holding d, then stream_decompress on the bytes it wrote: neither
\* raises, and the sink holds exactly d.
RoundTrip ==
    (cpc # "idle" /\ blocksize = None) =>
        /\ cpc # "error"
        /\ dpc # "error"
        /\ (cpc = "done" /\ dpc = "done" => Sink = src)

\* The round trip where / divides integers and the read size is not 0: it
\* holds for the default block size, for every block size giving a positive
\* read size and for those giving a negative one (a single read of everything).
RoundTripFloorDivision ==
    (cpc # "idle" /\ ~readSize.float /\ readSize.num # 0) =>
        /\ cpc # "error"
        /\ dpc # "error"
        /\ (cpc = "done" /\ dpc = "done" => Sink = src)

\* The payloads before the first empty one.
RECURSIVE UpToEmpty(_)
UpToEmpty(ds) ==
    IF ds = <<>> \/ Head(ds) = <<>> THEN <<>>
    ELSE <<Head(ds)>> \o UpToEmpty(Tail(ds))

RECURSIVE FramesMatch(_, _)
FramesMatch(w, ds) ==
    IF ds = <<>> THEN w = <<>>
    ELSE LET c == Compress(Head(ds))
         IN  /\ Len(w) >= 8 + Len(c)
             /\ UnpackBigEndian(SubSeq(w, 1, 4)) = Len(Head(ds))
             /\ UnpackBigEndian(SubSeq(w, 5, 8)) = Len(c)
             /\ SubSeq(w, 9, 8 + Len(c)) = c
             /\ FramesMatch(SubSeq(w, 9 + Len(c), Len(w)), Tail(ds))

\* C4: frame layout.  Every add_chunk(data) adds exactly one frame of
\* 8 + len(compress(data)) bytes: len(data) and len(compress(data)) as
\* unsigned big-endian 4-byte fields, then compress(data); for empty data
\* the first field is 0.
FrameLayout == tamper = "none" => FramesMatch(wire, chunks)

FrameLayoutWitness ==
    /\ cpc = "idle" /\ tamper = "none" /\ Len(chunks) = 2
    /\ chunks[1] = <<>> /\ Len(chunks[2]) = MaxLen
    /\ SubSeq(wire, 1, 4) = <<0, 0, 0, 0>>

\* C6: truncation.  A proper non-empty prefix of one valid frame, then end of
\* input: stream_decompress does not finish successfully, and writes nothing
\* (whichever error it raises is taken as the truncation error).
TruncationDetected ==
    (tamper = "cut" /\ Len(chunks) = 1) => (dpc # "done" /\ dst = <<>>)

\* The error a frame cut after k bytes raises: struct.error inside a length
\* field, UncompressError after the first field and inside the body.
CutError(k) ==
    IF k < 4 THEN StructError
    ELSE IF k = 4 THEN ErrChunkLength
    ELSE IF k < 8 THEN StructError
    ELSE ErrChunk

\* C6, amended: for the frame of a non-empty chunk every such prefix raises
\* an error and nothing is written; for the frame of an empty chunk a prefix
\* of under 4 bytes raises struct.error and a longer one ends the decoding
\* without error, nothing written.
TruncationOfNonEmptyChunk ==
    (tamper = "cut" /\ Len(chunks) = 1) =>
        /\ dst = <<>>
        /\ Finished =>
              IF chunks[1] # <<>>
              THEN dpc = "error" /\ derr = CutError(Len(wire))
              ELSE IF Len(wire) < 4
              THEN dpc = "error" /\ derr = StructError
              ELSE dpc = "done"

TruncationWitness ==
    /\ tamper = "cut" /\ Len(chunks) = 1 /\ chunks[1] # <<>>
    /\ Len(wire) > 8
    /\ dpc = "error" /\ derr = ErrChunk

\* C7: length mismatch.  A body the codec decodes to a length other than the
\* declared one raises the mismatch error, which is not the codec's failure,
\* and writes nothing; a codec failure raises the codec's error; and every
\* chunk written has the declared length.
LengthMismatchRaises ==
    [][LET u == Uncompress(compressed_chunk)
       IN  /\ (dpc = "decode" /\ u.ok /\ Len(u.data) # uncompressed_length)
                 => (dpc' = "error" /\ derr' = ErrMismatch /\ derr' # ErrCodec /\ dst' = dst)
           /\ (dpc = "decode" /\ ~u.ok)
                 => (dpc' = "error" /\ derr' = ErrCodec /\ dst' = dst)
           /\ (dst' # dst)
                 => (dpc = "decode" /\ dst' = Append(dst, u.data)
                     /\ Len(u.data) = uncompressed_length)]_vars

LengthMismatchWitness ==
    /\ tamper = "mut" /\ mutPos <= 4
    /\ dpc = "error" /\ derr = ErrMismatch /\ dst = <<>>
    /\ Uncompress(compressed_chunk).ok

LiteralIndex(data, i) == i - (8 + Len(Compress(data)) - Len(data))

ErrInvalidConfiguration == "InvalidConfiguration"

\* C9: invalid configuration.  stream_compress called with a block size of 0
\* or less raises InvalidConfiguration from hadoop_snappy_max_input_size, and
\* no read size of 0 or less is used.
InvalidConfigurationRaised ==
    (cpc # "idle" /\ blocksize # None /\ blocksize[1] <= 0) =>
        (cpc = "error" /\ cerr = ErrInvalidConfiguration)

\* --------------------------------------------------- StreamCompressor objects
\* Actions of this part leave the streams, the sizing and the incremental
\* decoder alone.
offObjects == <<encVars, wire, tamper, mutPos, decVars, sizeVars, incVars, runs>>

Call(op, obj, arg) == [op |-> op, obj |-> obj, arg |-> arg]

\* StreamCompressor(): __init__ sets no attribute.
Construct ==
    /\ Len(objects) < MaxObjects /\ Len(log) < MaxCalls
    /\ objects' = Append(objects, {})
    /\ log' = Append(log, Call("__init__", Len(objects) + 1, <<>>))
    /\ ret' = <<>> /\ retObj' = Len(objects) + 1 /\ exc' = NoError
    /\ UNCHANGED offObjects

\* add_chunk keeping state: the first call on an object writes a stream
\* header before the frame and remembers it in _header_chunk_written.
CallAddChunkWithHeader(obj, data) ==
    /\ obj \in 1..Len(objects) /\ Len(log) < MaxCalls
    /\ log' = Append(log, Call("add_chunk", obj, data))
    /\ retObj' = 0 /\ exc' = NoError
    /\ IF "_header_chunk_written" \in objects[obj]
       THEN ret' = add_chunk(data) /\ UNCHANGED objects
       ELSE /\ ret' = <<255>> \o add_chunk(data)
            /\ objects' = [objects EXCEPT ![obj] = @ \cup {"_header_chunk_written"}]
    /\ UNCHANGED offObjects

\* obj.add_chunk(data): reads and writes no attribute of obj.
CallAddChunk(obj, data) ==
    /\ obj \in 1..Len(objects) /\ Len(log) < MaxCalls
    /\ log' = Append(log, Call("add_chunk", obj, data))
    /\ ret' = add_chunk(data) /\ retObj' = 0 /\ exc' = NoError
    /\ UNCHANGED <<objects, offObjects>>

\* obj.compress(data): returns self.add_chunk(data).
CallCompress(obj, data) ==
    /\ obj \in 1..Len(objects) /\ Len(log) < MaxCalls
    /\ log' = Append(log, Call("compress", obj, data))
    /\ ret' = add_chunk(data) /\ retObj' = 0 /\ exc' = NoError
    /\ UNCHANGED <<objects, offObjects>>

\* obj.flush(): pass; returns None.
CallFlush(obj) ==
    /\ obj \in 1..Len(objects) /\ Len(log) < MaxCalls
    /\ log' = Append(log, Call("flush", obj, <<>>))
    /\ ret' = <<>> /\ retObj' = 0 /\ exc' = NoError
    /\ UNCHANGED <<objects, offObjects>>

\* obj.copy(): a new StreamCompressor, then the read of
\* self._header_chunk_written, which raises AttributeError when obj has no
\* such attribute (the new object is then dropped); otherwise the new
\* object gets the attribute and is returned.
CallCopy(obj) ==
    /\ obj \in 1..Len(objects) /\ Len(log) < MaxCalls
    /\ log' = Append(log, Call("copy", obj, <<>>))
    /\ ret' = <<>>
    /\ IF "_header_chunk_written" \in objects[obj]
       THEN /\ objects' = Append(objects, {"_header_chunk_written"})
            /\ retObj' = Len(objects) + 1 /\ exc' = NoError
       ELSE /\ exc' = AttributeError /\ retObj' = 0
            /\ UNCHANGED objects
    /\ UNCHANGED offObjects

NextCompressor ==
    \/ Construct
    \/ \E obj \in 1..Len(objects), data \in Payloads : CallAddChunk(obj, data)
    \/ \E obj \in 1..Len(objects), data \in Payloads : CallCompress(obj, data)
    \/ \E obj \in 1..Len(objects) : CallFlush(obj)
    \/ \E obj \in 1..Len(objects) : CallCopy(obj)

SpecCompressor == Init /\ [][NextCompressor]_vars

\* C10: copy.  copy(), on a fresh compressor or after any calls, raises
\* nothing and returns a new compressor, another object than the original.
CopyReturnsNewCompressor ==
    (log # <<>> /\ log[Len(log)].op = "copy") =>
        /\ exc = NoError
        /\ retObj = Len(objects)
        /\ retObj # log[Len(log)].obj

\* ------------------------------------------------------------------ sizing
offSizing == <<encVars, wire, tamper, mutPos, decVars, objVars, incVars, runs>>

\* The most bytes a compressor may return for n bytes: n plus the overhead
\* of n/6 + 32 bytes (snappy's documented worst case).
MaxCompressedLength(n) == 32 + n + (n \div 6)

Zeros(n) == [i \in 1..n |-> 0]

\* The whole number of bytes in a value of hadoop_snappy_max_input_size.
WholeBytes(size) == size.num \div size.den

InitSizing ==
    /\ StreamInit /\ ObjInit /\ IncInit /\ RunsIdle
    /\ szBlock \in 33..MaxBlockSize /\ szTrueDivision \in BOOLEAN
    /\ szMax = Unset /\ szFrame = <<>> /\ szpc = "start"

\* hadoop_snappy_max_input_size(szBlock).
SizingCall ==
    /\ szpc = "start"
    /\ szMax' = hadoop_snappy_max_input_size(Some(szBlock), szTrueDivision)
    /\ szpc' = "sized"
    /\ UNCHANGED <<szBlock, szTrueDivision, szFrame, offSizing>>

\* add_chunk on a payload of that many bytes, _compress returning any
\* compressed_chunk of 1 to MaxCompressedLength bytes.
SizingAddChunk(compressedLen) ==
    /\ szpc = "sized"
    /\ WholeBytes(szMax) >= 0
    /\ compressedLen \in 1..MaxCompressedLength(WholeBytes(szMax))
    /\ szFrame' = Frame(Zeros(WholeBytes(szMax)), Zeros(compressedLen))
    /\ szpc' = "framed"
    /\ UNCHANGED <<szBlock, szTrueDivision, szMax, offSizing>>

NextSizing ==
    \/ SizingCall
    \/ \E compressedLen \in 1..MaxCompressedLength(WholeBytes(szMax)) :
           SizingAddChunk(compressedLen)

SpecSizing == InitSizing /\ [][NextSizing]_vars

\* C5: sizing bound.  For every block size B > 32 the value of
\* hadoop_snappy_max_input_size(B) is a payload size (a whole number, 0 or
\* more), and the frame of a payload of that size is at most B bytes long
\* whatever the compressor returns within its worst case.
SizingBound ==
    /\ szpc # "start" => (szMax.num % szMax.den = 0 /\ szMax.num >= 0)
    /\ szpc = "framed" => Len(szFrame) <= szBlock

\* C5, amended: the same for every block size B >= 96, the payload size
\* being the value rounded down to whole bytes.
SizingBoundFrom96 ==
    szBlock >= 96 =>
        /\ szpc # "start" => WholeBytes(szMax) >= 0
        /\ szpc = "framed" =>
              /\ UnpackBigEndian(SubSeq(szFrame, 1, 4)) = WholeBytes(szMax)
              /\ Len(szFrame) <= szBlock

SizingBoundWitness ==
    /\ szpc = "framed" /\ szBlock = 96 /\ ~szTrueDivision
    /\ UnpackBigEndian(SubSeq(szFrame, 1, 4)) = 48
    /\ Len(szFrame) = 96

\* ------------------------------------------------- the incremental decoder
offDecoder == <<encVars, tamper, mutPos, decVars, objVars, sizeVars, runs>>

ErrTruncatedStream == "TruncatedStream"
ErrLengthMismatch == "LengthMismatch"
ErrCodecDecodeFailure == "CodecDecodeFailure"

\* The decoder's loop over its buffer: each state consumes its field when
\* the buffer holds it, a complete body is decoded, checked against the
\* uncompressed length and appended to the output; the loop ends when the
\* buffer holds too little.  An uncompressed length of 0 is an empty chunk.
RECURSIVE Drain(_)
Drain(d) ==
    IF d.state = "AwaitUncompressedLen" THEN
        IF Len(d.buf) < 4 THEN d
        ELSE Drain([d EXCEPT !.state = "AwaitCompressedLen",
                             !.ulen = UnpackBigEndian(SubSeq(d.buf, 1, 4)),
                             !.buf = SubSeq(d.buf, 5, Len(d.buf))])
    ELSE IF d.state = "AwaitCompressedLen" THEN
        IF Len(d.buf) < 4 THEN d
        ELSE Drain([d EXCEPT !.state = "AwaitCompressedBody",
                             !.clen = UnpackBigEndian(SubSeq(d.buf, 1, 4)),
                             !.buf = SubSeq(d.buf, 5, Len(d.buf))])
    ELSE
        IF Len(d.buf) < d.clen THEN d
        ELSE LET u == Uncompress(SubSeq(d.buf, 1, d.clen))
             IN  IF ~u.ok THEN [d EXCEPT !.err = ErrCodecDecodeFailure]
                 ELSE IF Len(u.data) # d.ulen THEN [d EXCEPT !.err = ErrLengthMismatch]
                 ELSE Drain([d EXCEPT !.state = "AwaitUncompressedLen",
                                      !.out = d.out \o u.data,
                                      !.buf = SubSeq(d.buf, d.clen + 1, Len(d.buf))])

\* decompressor.decompress(piece), piece the next n bytes of the stream.
DecoderFeed(n) ==
    /\ ipc \in {"idle", "feeding"} /\ cpc = "idle" /\ dpc = "idle"
    /\ ipos < Len(wire)
    /\ n \in 0..MaxPiece
    /\ LET piece == FileRead(wire, ipos, n)
           d == Drain([state |-> istate, buf |-> ibuf \o piece, ulen |-> iulen,
                       clen |-> iclen, out |-> <<>>, err |-> NoError])
       IN  /\ ipos' = ipos + Len(piece)
           /\ istate' = d.state /\ ibuf' = d.buf
           /\ iulen' = d.ulen /\ iclen' = d.clen
           /\ ierr' = d.err
           /\ ipc' = IF d.err = NoError THEN "feeding" ELSE "error"
           /\ ireturned' = IF d.err = NoError THEN ireturned \o d.out ELSE ireturned
    /\ UNCHANGED <<wire, offDecoder>>

\* decompressor.flush(): the end of the stream; bytes of an incomplete
\* frame are a truncated stream.
DecoderFlush ==
    /\ ipc \in {"idle", "feeding"} /\ cpc = "idle" /\ dpc = "idle"
    /\ IF istate = "AwaitUncompressedLen" /\ ibuf = <<>>
       THEN ipc' = "flushed" /\ UNCHANGED ierr
       ELSE ipc' = "error" /\ ierr' = ErrTruncatedStream
    /\ UNCHANGED <<wire, ipos, istate, ibuf, iulen, iclen, ireturned, offDecoder>>

NextDecoder ==
    \/ \E data \in Payloads : AddChunk(data)
    \/ \E n \in 0..MaxPiece : DecoderFeed(n)
    \/ DecoderFlush

SpecDecoder == Init /\ [][NextDecoder]_vars

IsPrefix(p, q) == Len(p) <= Len(q) /\ p = SubSeq(q, 1, Len(p))

DecoderTruncation ==
    (Len(chunks) = 1 /\ ipos \in 1..(Len(wire) - 1)) =>
        /\ ireturned = <<>>
        /\ ipc # "flushed"
        /\ ipc = "error" => ierr = ErrTruncatedStream

\* ------------------------------------------- the loop of stream_decompress
\* The length field about to be read at the top of the loop is a zero.
ZeroLengthNext ==
    /\ dpc = "ulen"
    /\ read_int(wire, rpos).err = NoError
    /\ read_int(wire, rpos).val = 0

\* C11: an uncompressed-length field of 0 ends stream_decompress as the end
\* of the input does: the step that reads it returns without an error and
\* writes nothing, and once the function has returned nothing more is read
\* from the source or written to the sink, whatever frames follow the zero.
ZeroLengthEndsStream ==
    [][/\ (ZeroLengthNext =>
             (/\ dpc' = "done" /\ derr' = NoError /\ dst' = dst
              /\ rpos' = rpos + read_int(wire, rpos).n))
       /\ (dpc = "done" => UNCHANGED <<dpc, rpos, dst, derr>>)]_vars

\* A frame of add_chunk(b"") followed by a frame with a payload: the decoder
\* has returned at the empty frame's first field and left the rest unread.
ZeroLengthWitness ==
    /\ tamper = "none" /\ cpc = "idle"
    /\ dpc = "done" /\ derr = NoError
    /\ \E i \in 1..Len(chunks) :
           /\ chunks[i] = <<>>
           /\ \A j \in 1..(i - 1) : chunks[j] # <<>>
           /\ \E j \in (i + 1)..Len(chunks) : chunks[j] # <<>>
           /\ Len(dst) = i - 1
    /\ rpos >= 4 /\ rpos < Len(wire)
    /\ SubSeq(wire, rpos - 3, rpos) = <<0, 0, 0, 0>>

\* The payloads of the leading complete frames of w from position pos on,
\* by the layout alone: a frame is complete when its two length fields and
\* the body the second one declares are all there and the body decodes to
\* as many bytes as the first one declares.  The frames end at the first
\* one that is not complete.
RECURSIVE CompleteFrames(_, _)
CompleteFrames(w, pos) ==
    IF pos + 8 > Len(w) THEN <<>>
    ELSE LET ulen == UnpackBigEndian(SubSeq(w, pos + 1, pos + 4))
             clen == UnpackBigEndian(SubSeq(w, pos + 5, pos + 8))
         IN  IF pos + 8 + clen > Len(w) THEN <<>>
             ELSE LET u == Uncompress(SubSeq(w, pos + 9, pos + 8 + clen))
                  IN  IF ~u.ok \/ Len(u.data) # ulen THEN <<>>
                      ELSE <<u.data>> \o CompleteFrames(w, pos + 8 + clen)

\* What is written is the payloads of the first Len(dst) complete frames.
WrittenIsFramePrefix ==
    LET frames == CompleteFrames(wire, 0)
    IN  /\ Len(dst) <= Len(frames)
        /\ dst = SubSeq(frames, 1, Len(dst))

\* A step that raises writes nothing, a step keeps what was written before
\* it, and nothing is read or written after an error.
ErrorsAreTerminal ==
    /\ (dpc # "error" /\ dpc' = "error") => dst' = dst
    /\ Len(dst) <= Len(dst') /\ dst = SubSeq(dst', 1, Len(dst))
    /\ dpc = "error" => UNCHANGED <<dpc, rpos, dst, derr>>

\* C12: in every state of stream_decompress, the error state included, the
\* sink holds the payloads of the first k complete frames of the source, in
\* order, for some k; the frame that fails adds nothing, what earlier frames
\* wrote stays, and after the error nothing more is read or written.
PrefixInvariant == []WrittenIsFramePrefix /\ [][ErrorsAreTerminal]_vars

\* An error raised inside the second frame, the first frame's payload
\* written and kept.
PrefixWitness ==
    /\ tamper = "cut" /\ Len(chunks) = 2
    /\ dpc = "error" /\ derr = ErrChunk
    /\ dst = <<chunks[1]>> /\ chunks[1] # <<>>
    /\ Sink = chunks[1]

\* ---------------------------------------------- the loop of stream_compress
\* The pieces stream_compress has written so far, by the block size it was
\* called with: the bytes written are frames and nothing else, one frame
\* per piece, no piece is empty or longer than the read size, and the
\* pieces are the part of the source read so far, in order.
PiecesWritten ==
    LET frames == CompleteFrames(wire, 0)
    IN  /\ FramesMatch(wire, frames)
        /\ \A i \in 1..Len(frames) :
               /\ frames[i] # <<>>
               /\ Len(frames[i]) * readSize.den <= readSize.num
        /\ Concat(frames) = SubSeq(src, 1, srcPos)
        /\ cpc = "done" => Concat(frames) = src

\* C13: chunking.  For every source and every positive block size,
\* stream_compress does not raise, reads pieces of at most
\* hadoop_snappy_max_input_size(blocksize) bytes, writes one frame per
\* non-empty piece in read order and nothing else (nothing at all for an
\* empty source), and the payloads of the frames written are together the
\* whole source.
Chunking ==
    (cpc # "idle" /\ Truthy(blocksize) /\ blocksize[1] > 0) =>
        /\ cpc # "error"
        /\ PiecesWritten

\* Chunking where / divides integers and the read size is positive, that is
\* for block sizes from 39 on.
ChunkingFloorDivision ==
    (cpc # "idle" /\ ~readSize.float /\ readSize.num > 0) =>
        /\ cpc # "error"
        /\ PiecesWritten

\* ------------------------------------------- the states of stream_decompress
\* The position in w after its first k frames, by the compressed-length
\* fields alone.
RECURSIVE FrameEnd(_, _)
FrameEnd(w, k) ==
    IF k = 0 THEN 0
    ELSE LET p == FrameEnd(w, k - 1)
         IN  p + 8 + UnpackBigEndian(SubSeq(w, p + 5, p + 8))

\* Where the decoder is inside the frame it is reading: the frame starts
\* where the frames written so far end; awaiting the compressed length the
\* first field has been read and parsed, awaiting the body both have, and
\* at decode-and-emit the chunk held is the whole body.
PositionInFrame ==
    LET start == FrameEnd(wire, Len(dst))
    IN  /\ dpc = "ulen" => rpos = start
        /\ dpc = "clen" =>
               /\ rpos = start + 4
               /\ uncompressed_length = UnpackBigEndian(SubSeq(wire, start + 1, start + 4))
        /\ dpc \in {"body", "decode"} =>
               /\ uncompressed_length = UnpackBigEndian(SubSeq(wire, start + 1, start + 4))
               /\ compressed_length = UnpackBigEndian(SubSeq(wire, start + 5, start + 8))
        /\ dpc = "body" => rpos = start + 8
        /\ dpc = "decode" =>
               /\ rpos = start + 8 + compressed_length
               /\ Len(compressed_chunk) = compressed_length
               /\ compressed_chunk = SubSeq(wire, start + 9, rpos)

\* The order of the states, and the only step that writes.
OrderStep ==
    /\ dpc = "ulen" => dpc' \in {"ulen", "clen", "done", "error"}
    /\ dpc = "clen" => dpc' \in {"clen", "body", "error"}
    /\ dpc = "body" => dpc' \in {"body", "decode", "error"}
    /\ dpc = "decode" => dpc' \in {"decode", "ulen", "error"}
    /\ dst' # dst => (dpc = "decode" /\ dpc' = "ulen")
    /\ (rpos' # rpos /\ dpc = "body") => dpc' \in {"decode", "error"}

\* C14: state order.  For every frame stream_decompress goes through
\* await-uncompressed-length, await-compressed-length, await-compressed-body
\* and decode-and-emit in this order and back to the first; body bytes are
\* read only with both length fields parsed, output is written only with
\* the whole body of compressed_length bytes read, and the body read is
\* exactly compressed_length bytes, the next header starting right after it.
StateOrder == []PositionInFrame /\ [][OrderStep]_vars

\* Back at the top of the loop after two frames, the third one's header next.
StateOrderWitness ==
    /\ tamper = "none"
    /\ dpc = "ulen" /\ Len(dst) = 2
    /\ rpos = FrameEnd(wire, 2) /\ rpos + 8 < Len(wire)
    /\ Len(compressed_chunk) = compressed_length /\ compressed_length > 0

\* ------------------------------------------- the state of a StreamCompressor
\* The call just made, as the log records it.
LastCall == log'[Len(log')]

\* C15: stateless encoder.  add_chunk, its alias compress and flush change
\* no attribute of any compressor and raise nothing; flush returns nothing;
\* and what add_chunk or compress returns is the one frame of its argument,
\* whichever object it is called on and whatever was called on it before.
StatelessEncoder ==
    [][(log' # log /\ LastCall.op \in {"add_chunk", "compress", "flush"}) =>
          /\ objects' = objects
          /\ exc' = NoError /\ retObj' = 0
          /\ LastCall.op = "flush" => ret' = <<>>
          /\ LastCall.op # "flush" => FramesMatch(ret', <<LastCall.arg>>)]_vars

\* add_chunk on an object that has already compressed other data and been
\* flushed: the frame returned is the frame of the new data alone.
StatelessEncoderWitness ==
    /\ Len(log) = 3
    /\ log[1].op = "compress" /\ log[1].obj = 1 /\ log[1].arg # <<>>
    /\ log[2].op = "flush" /\ log[2].obj = 1
    /\ log[3].op = "add_chunk" /\ log[3].obj = 1 /\ log[3].arg = <<>>
    /\ ret = <<0, 0, 0, 0, 0, 0, 0, 1, 0>>
    /\ objects = <<{}>>

\* ------------------------------------------------- two calls side by side
\* Actions of this part leave the single calls, the objects, the sizing and
\* the incremental decoder alone.
offRuns == <<encVars, wire, tamper, mutPos, decVars, objVars, sizeVars, incVars>>

\* Payloads the sources of the two calls are made of.
RunPayloads == {<<0>>, <<1>>}
RunInputs == SeqsUpTo(RunPayloads, MaxRunFrames)

\* Frames of the payloads ds, one after the other.
RECURSIVE FramesOf(_)
FramesOf(ds) == IF ds = <<>> THEN <<>> ELSE add_chunk(Head(ds)) \o FramesOf(Tail(ds))

\* Encoded streams given to stream_decompress: whole, or short of the last byte.
RunStreams ==
    {FramesOf(ds) : ds \in RunInputs}
        \cup {SubSeq(FramesOf(ds), 1, Len(FramesOf(ds)) - 1) : ds \in RunInputs \ {<<>>}}

\* Block sizes given to stream_compress, and how / divides.
RunBlockSizes == {<<None, FALSE>>, <<Some(39), FALSE>>, <<Some(39), TRUE>>}

\* The state of a call at its first statement.
StartCompress(data, bs, trueDivision) ==
    [NoRun EXCEPT !.kind = "compress", !.src = data, !.pc = "loop",
                  !.readSize = hadoop_snappy_max_input_size(bs, trueDivision)]

StartDecompress(data) ==
    [NoRun EXCEPT !.kind = "decompress", !.src = data, !.pc = "ulen"]

\* One iteration of the loop of stream_compress (lines 160-165) on the
\* names of one call.
CompressStepOf(st) ==
    IF st.readSize.float
    THEN [st EXCEPT !.pc = "error", !.err = TypeErrorFloat]
    ELSE LET buf == FileRead(st.src, st.pos, st.readSize.num)
         IN  IF buf = <<>> THEN [st EXCEPT !.pc = "done"]
             ELSE [st EXCEPT !.pos = @ + Len(buf),
                             !.sink = Append(@, add_chunk(buf))]

\* One statement group of the loop of stream_decompress (lines 176-194) on
\* the names of one call.
DecompressStepOf(st) ==
    IF st.pc = "ulen"
    THEN LET r == read_int(st.src, st.pos)
         IN  IF r.err # NoError
             THEN [st EXCEPT !.pos = @ + r.n, !.pc = "error", !.err = r.err]
             ELSE [st EXCEPT !.pos = @ + r.n, !.uncompressed_length = r.val,
                             !.pc = IF r.val = 0 THEN "done" ELSE "clen"]
    ELSE IF st.pc = "clen"
    THEN LET r == read_int(st.src, st.pos)
         IN  IF r.err # NoError
             THEN [st EXCEPT !.pos = @ + r.n, !.pc = "error", !.err = r.err]
             ELSE IF r.val = 0
             THEN [st EXCEPT !.pos = @ + r.n, !.compressed_length = r.val,
                             !.pc = "error", !.err = ErrChunkLength]
             ELSE [st EXCEPT !.pos = @ + r.n, !.compressed_length = r.val,
                             !.pc = "body"]
    ELSE IF st.pc = "body"
    THEN LET got == FileRead(st.src, st.pos, st.compressed_length)
         IN  IF Len(got) # st.compressed_length
             THEN [st EXCEPT !.pos = @ + Len(got), !.compressed_chunk = got,
                             !.pc = "error", !.err = ErrChunk]
             ELSE [st EXCEPT !.pos = @ + Len(got), !.compressed_chunk = got,
                             !.pc = "decode"]
    ELSE LET u == Uncompress(st.compressed_chunk)
         IN  IF ~u.ok THEN [st EXCEPT !.pc = "error", !.err = ErrCodec]
             ELSE IF Len(u.data) # st.uncompressed_length
             THEN [st EXCEPT !.pc = "error", !.err = ErrMismatch]
             ELSE [st EXCEPT !.pc = "ulen", !.sink = Append(@, u.data)]

StepOf(st) == IF st.kind = "compress" THEN CompressStepOf(st) ELSE DecompressStepOf(st)

Stopped(st) == st.pc \in {"done", "error"}

\* Run r is a call stream_compress(src, dst, blocksize) on its own src and dst.
RunStreamCompress(r, data, bs, trueDivision) ==
    /\ runs[r].pc = "idle"
    /\ runs' = [runs EXCEPT ![r] = StartCompress(data, bs, trueDivision)]
    /\ UNCHANGED offRuns

\* Run r is a call stream_decompress(src, dst) on its own src and dst.
RunStreamDecompress(r, data) ==
    /\ runs[r].pc = "idle"
    /\ runs' = [runs EXCEPT ![r] = StartDecompress(data)]
    /\ UNCHANGED offRuns

\* A step of run r with compressed_chunk a name of the module, one for
\* both runs, instead of a local name of the call.
RunStepSharedChunk(r) ==
    /\ runs[r].pc # "idle" /\ ~Stopped(runs[r])
    /\ LET st == StepOf(runs[r])
       IN  runs' = [q \in Runs |->
                      IF q = r THEN st
                      ELSE [runs[q] EXCEPT !.compressed_chunk = st.compressed_chunk]]
    /\ UNCHANGED offRuns

\* The next step of run r: it works on the names of its own call and on
\* its own src and dst (lines 158-165 and 175-194 use no other names).
RunStep(r) ==
    /\ runs[r].pc # "idle" /\ ~Stopped(runs[r])
    /\ runs' = [runs EXCEPT ![r] = StepOf(runs[r])]
    /\ UNCHANGED offRuns

NextRuns ==
    \/ \E r \in Runs, data \in {Concat(ds) : ds \in RunInputs}, b \in RunBlockSizes :
           RunStreamCompress(r, data, b[1], b[2])
    \/ \E r \in Runs, data \in RunStreams : RunStreamDecompress(r, data)
    \/ \E r \in Runs : RunStep(r)

SpecRuns == Init /\ [][NextRuns]_vars

\* The states a call goes through when it runs alone, from st on.
RECURSIVE Alone(_)
Alone(st) == IF Stopped(st) THEN {st} ELSE {st} \cup Alone(StepOf(st))

\* The call of run st at its first statement.
StartOf(st) ==
    [NoRun EXCEPT !.kind = st.kind, !.src = st.src, !.readSize = st.readSize,
                  !.pc = IF st.kind = "compress" THEN "loop" ELSE "ulen"]

\* What the call writes when it runs alone to its end.
RECURSIVE WrittenAlone(_)
WrittenAlone(st) == IF Stopped(st) THEN st.sink ELSE WrittenAlone(StepOf(st))

\* Each run is where it would be running alone, and has written, when it
\* has stopped, what it writes alone.
AsAlone ==
    \A r \in Runs :
        runs[r].pc # "idle" =>
            /\ runs[r] \in Alone(StartOf(runs[r]))
            /\ Stopped(runs[r]) => runs[r].sink = WrittenAlone(StartOf(runs[r]))

\* A step changes the state of one run only.
OneRunSteps ==
    \A r \in Runs : runs'[r] # runs[r] => \A q \in Runs \ {r} : runs'[q] = runs[q]

SingleRun ==
    IF dpc # "idle"
    THEN [NoRun EXCEPT !.kind = "decompress", !.src = wire, !.pos = rpos,
                       !.pc = dpc, !.err = derr, !.sink = dst,
                       !.uncompressed_length = uncompressed_length,
                       !.compressed_length = compressed_length,
                       !.compressed_chunk = compressed_chunk]
    ELSE [NoRun EXCEPT !.kind = "compress", !.src = src, !.pos = srcPos,
                       !.pc = cpc, !.err = cerr, !.readSize = readSize,
                       !.sink = [i \in 1..Len(chunks) |-> add_chunk(chunks[i])]]

\* A run alone is the single call: the single call is always in a state
\* the run goes through.
RunAloneIsSingleCall ==
    (dpc # "idle" \/ cpc # "idle") => SingleRun \in Alone(StartOf(SingleRun))

\* ------------------------------------------------------------- termination
\* A call that has been made goes on to its next statement: the loops of
\* stream_compress and stream_decompress are not suspended for ever.
SpecFair ==
    /\ Spec
    /\ WF_vars(StreamCompressStep)
    /\ WF_vars(ReadUncompressedLength)
    /\ WF_vars(ReadCompressedLength)
    /\ WF_vars(ReadCompressedChunk)
    /\ WF_vars(DecodeAndWrite)

Decoding == dpc \in {"ulen", "clen", "body", "decode"}

\* What is left to do for stream_decompress: the bytes not yet read, and
\* within an iteration the statements not yet run.
DecoderVariant ==
    4 * (Len(wire) - rpos)
        + (IF dpc = "clen" THEN 3 ELSE IF dpc = "body" THEN 2
           ELSE IF dpc = "decode" THEN 1 ELSE 0)

\* An iteration that does not leave the loop takes input: at least the 4
\* bytes of a length field for stream_decompress, at least one byte of the
\* source for stream_compress; and every statement of stream_decompress
\* that does not leave the function brings the end nearer.
ConsumesInput ==
    /\ (dpc = "ulen" /\ dpc' = "clen") => rpos' = rpos + 4
    /\ (dpc = "decode" /\ dpc' = "ulen") => rpos >= 4 /\ rpos <= Len(wire)
    /\ (Decoding /\ Decoding' /\ dpc' # dpc) =>
           (DecoderVariant' < DecoderVariant /\ DecoderVariant' >= 0)
    /\ (cpc = "loop" /\ cpc' = "loop" /\ wire' # wire) =>
           (srcPos' >= srcPos + 1 /\ srcPos' <= Len(src))
    /\ (cpc = "loop" /\ cpc' = "loop") => (wire' # wire \/ UNCHANGED vars)

\* C17: termination.  On every finite source stream_compress and
\* stream_decompress eventually stop, returning or raising; every iteration
\* of stream_decompress that does not leave the loop reads at least the 4
\* bytes of a length field, every such iteration of stream_compress at
\* least one byte of the source.
Termination ==
    /\ [][ConsumesInput]_vars
    /\ (cpc = "loop") ~> (cpc \in {"done", "error"})
    /\ Decoding ~> Finished

\* stream_decompress has returned at the end of a source of three frames,
\* all of it read, after stream_compress read the source byte by byte.
TerminationWitness ==
    /\ cpc = "done" /\ Len(chunks) = 3 /\ srcPos = Len(src)
    /\ dpc = "done" /\ Len(dst) = 3 /\ rpos = Len(wire)
    /\ DecoderVariant = 0

====
